---- MODULE Spec2Model ----
(***************************************************************************)
(* A model of the flaskr package: the application factory (__init__.py),   *)
(* the request-scoped database connection (db.py) and the auth blueprint   *)
(* (auth.py).  One client talks to one application; requests are served   *)
(* one at a time.  A request is: push the context, run the before-request  *)
(* hooks, dispatch the view, run the teardown functions and pop.           *)
(***************************************************************************)
EXTENDS Integers, Sequences, FiniteSets, TLC

VARIABLES
    app,        \* the Flask application: url map, hooks, teardown functions, cli
    bp,         \* the auth blueprint: what has been recorded on it, whether registered
    user,       \* the user table of the database file, rows in id order
    session,    \* the client's signed session cookie / the request's session dict
    pc,         \* where the application is: "idle", "before", "view", "direct", "teardown"
    req,        \* the request being served
    g,          \* flask.g of the current context
    conns,      \* every sqlite3 connection created so far
    response,   \* the response of the current / last request
    last,       \* the function of the package that ran last
    calls,      \* the direct calls of the package's functions in this context, in order
    viewCalled, \* whether the view wrapped by login_required was invoked in this context
    registered, \* <<u, p>> when the last request served by a view was a valid
                \* Register of a username the table did not hold, else <<>>
    loggedOut,  \* whether a Logout has been served by its view and no Login has
                \* bound the session since
    workers     \* the requests served concurrently with each other (SpecConc)

vars == <<app, bp, user, session, pc, req, g, conns, response, last, calls,
          viewCalled, registered, loggedOut, workers>>

----------------------------------------------------------------------------
(* Bounds *)

MaxConn == 2        \* connections created over a run
MaxTeardown == 2    \* calls of init_app over a run
MaxCalls == 3       \* direct calls of the package's functions in one context

(* Inputs *)

Usernames == {"alice", "bob"}
Passwords == {"secret1", "wrong"}
FormUsernames == Usernames \cup {""}
FormPasswords == Passwords \cup {""}
Paths == {"/hello", "/auth/register", "/auth/login", "/auth/logout", "/"}
Methods == {"GET", "POST"}

(* Python values *)

None == 0                       \* None where an id or a handle is expected
NoneUser == [tag |-> "None"]    \* g.user = None
Unset == [tag |-> "unset"]      \* g has no attribute 'user'
Row(r) == [tag |-> "Row", row |-> r]
NoDb == 0                       \* 'db' not in g
NoExc == "-"
NoFlash == <<>>
EmptyG == [db |-> NoDb, user |-> Unset]
EmptySession == [user_id |-> None]
NoRequest == [path |-> "-", method |-> "-", username |-> "", password |-> ""]
NoResponse == [status |-> 0, body |-> "-", flash |-> NoFlash, exc |-> NoExc]

(* Responses *)

Render(template, message) ==
    [status |-> 200, body |-> template, flash |-> message, exc |-> NoExc]
Text(t) == [status |-> 200, body |-> t, flash |-> NoFlash, exc |-> NoExc]
Redirect(endpoint) ==
    [status |-> 302, body |-> endpoint, flash |-> NoFlash, exc |-> NoExc]
Abort(code) == [status |-> code, body |-> "-", flash |-> NoFlash, exc |-> NoExc]
Raise(e, message) == [status |-> 500, body |-> "-", flash |-> message, exc |-> e]

----------------------------------------------------------------------------
(* werkzeug.security: a hash is not the password; it verifies the password *)

generate_password_hash(password) == <<"pbkdf2", password>>
check_password_hash(pwhash, password) == pwhash = <<"pbkdf2", password>>

----------------------------------------------------------------------------
(* __init__.py *)

create_app ==
    [url_map |-> {"hello"},
     before_request_funcs |-> {},
     teardown_appcontext_funcs |-> <<>>,
     cli |-> {},
     blueprints |-> {}]

hello == Text("Hello World!")

\* the rule of each endpoint: its path and its methods
Rule(endpoint) ==
    CASE endpoint = "hello" -> [path |-> "/hello", methods |-> {"GET"}]
      [] endpoint = "auth.register" ->
            [path |-> "/auth/register", methods |-> {"GET", "POST"}]
      [] endpoint = "auth.login" ->
            [path |-> "/auth/login", methods |-> {"GET", "POST"}]
      [] endpoint = "auth.logout" -> [path |-> "/auth/logout", methods |-> {"GET"}]
      [] OTHER -> [path |-> "-", methods |-> {}]

\* url_for(endpoint): the endpoint if the application has it, else BuildError
url_for_ok(endpoint) == endpoint \in app.url_map

----------------------------------------------------------------------------
(* db.py *)

\* a fresh sqlite3 connection
Connect == [open |-> TRUE, closes |-> 0]

\* get_db(): creates and stores the connection when 'db' is not in g; the
\* return statement is inside that if block, so a call that finds 'db' in g
\* falls off the end of the function and returns None
get_db(gg, cs) ==
    IF gg.db = NoDb
    THEN [g |-> [gg EXCEPT !.db = Len(cs) + 1],
          conns |-> Append(cs, Connect),
          ret |-> Len(cs) + 1]
    ELSE [g |-> gg, conns |-> cs, ret |-> None]

\* close_db reading the handle with g.get('db') instead of popping it
close_db_keeps_handle(gg, cs) ==
    LET db == gg.db
    IN  [g |-> gg,
         conns |-> IF db # None
                   THEN [cs EXCEPT ![db] = [open |-> FALSE, closes |-> @.closes + 1]]
                   ELSE cs]

\* close_db(e=None): db = g.pop('db', None); if db is not None: db.close()
close_db(gg, cs) ==
    LET db == gg.db
    IN  [g |-> [gg EXCEPT !.db = NoDb],
         conns |-> IF db # None
                   THEN [cs EXCEPT ![db] = [open |-> FALSE, closes |-> @.closes + 1]]
                   ELSE cs]

\* schema.sql, run by executescript: drops the user table and creates it empty
schema_sql(tbl) == <<>>

\* init_db(): db = get_db(); db.executescript(schema.sql)
init_db ==
    LET d == get_db(g, conns)
    IN  IF d.ret = None
        THEN [g |-> d.g, conns |-> d.conns, user |-> user,
              response |-> Raise("AttributeError", NoFlash)]
        ELSE [g |-> d.g, conns |-> d.conns, user |-> schema_sql(user),
              response |-> response]

\* the teardown functions of the application, run when a context is popped
RECURSIVE RunTeardown(_, _, _)
RunTeardown(funcs, gg, cs) ==
    IF funcs = <<>>
    THEN [g |-> gg, conns |-> cs]
    ELSE LET c == close_db(gg, cs)
         IN  RunTeardown(Tail(funcs), c.g, c.conns)

----------------------------------------------------------------------------
(* auth.py *)

\* what a view or a hook leaves behind
Out(gg, cs, sess, tbl, b, resp) ==
    [g |-> gg, conns |-> cs, session |-> sess, user |-> tbl, bp |-> b,
     response |-> resp]

\* the blueprint after the module is imported: the decorators at module level
\* have recorded register and logout; login and load_logged_in_user are
\* defined inside register() and are not recorded
bp_at_import ==
    [registered |-> FALSE,
     routes |-> {"auth.register", "auth.logout"},
     before_app_request |-> {}]

\* "INSERT INTO user (username password) VALUES (? ?)": the column names and
\* the placeholders are not separated by commas, so sqlite3 cannot parse it
InsertStatementParses == FALSE

\* the statement as a well-formed INSERT OR REPLACE: a username of the table
\* gets its row overwritten
execute_insert_or_replace(tbl, username, pwhash) ==
    IF \E i \in DOMAIN tbl : tbl[i].username = username
    THEN [exc |-> NoExc,
          user |-> [i \in DOMAIN tbl |->
                       IF tbl[i].username = username
                       THEN [tbl[i] EXCEPT !.password = pwhash]
                       ELSE tbl[i]]]
    ELSE [exc |-> NoExc,
          user |-> Append(tbl, [id |-> Len(tbl) + 1, username |-> username,
                                password |-> pwhash])]

\* db.execute(INSERT ...); db.commit()
execute_insert(tbl, username, pwhash) ==
    IF ~InsertStatementParses
    THEN [exc |-> "OperationalError", user |-> tbl]
    ELSE IF \E i \in DOMAIN tbl : tbl[i].username = username
    THEN [exc |-> "IntegrityError", user |-> tbl]
    ELSE [exc |-> NoExc,
          user |-> Append(tbl, [id |-> Len(tbl) + 1, username |-> username,
                                password |-> pwhash])]

\* the validation without its `elif not password` branch
register_error_username_only(r) ==
    IF r.username = "" THEN <<"Username is required.">> ELSE NoFlash

\* register's input validation: the error, None (no message) if there is none
register_error(r) ==
    IF r.username = "" THEN <<"Username is required.">>
    ELSE IF r.password = "" THEN <<"Password is required.">>
    ELSE NoFlash

\* register logging the new user in with the id the insert is to give
register_session_auto_login(r) ==
    IF r.method = "POST" /\ register_error(r) = NoFlash
    THEN [user_id |-> Len(user) + 1]
    ELSE session

\* the session register leaves: the view never assigns to it
register_session(r) == session

\* the view of /auth/register, run in a context whose g is gg, with the
\* connections cs and the user table tbl
register_view(r, gg, cs, tbl) ==
    IF r.method = "POST"
    THEN LET d == get_db(gg, cs)
             db == d.ret
             error == register_error(r)
         IN  IF error = NoFlash
             THEN IF db = None
                  THEN {Out(d.g, d.conns, register_session(r), tbl, bp, Raise("AttributeError", NoFlash))}
                  ELSE LET x == execute_insert(tbl, r.username,
                                               generate_password_hash(r.password))
                       IN  IF x.exc = "IntegrityError"
                           THEN {Out(d.g, d.conns, register_session(r), tbl, bp,
                                     Render("auth/register.html",
                                            <<"User", r.username,
                                              "is already registered. Please login instead.">>))}
                           ELSE IF x.exc = NoExc
                           THEN {Out(d.g, d.conns, register_session(r), x.user, bp,
                                     IF url_for_ok("auth.login")
                                     THEN Redirect("auth.login")
                                     ELSE Raise("BuildError", NoFlash))}
                           ELSE {Out(d.g, d.conns, register_session(r), tbl, bp, Raise(x.exc, NoFlash))}
             ELSE {Out(d.g, d.conns, register_session(r), tbl, bp,
                       Render("auth/register.html", error))}
    ELSE \* GET: the body defines login and load_logged_in_user, decorating them
         \* on the blueprint, and then ends without a return value.
         \* A registered blueprint either refuses the decorator (AssertionError)
         \* or records it without touching the application; then the view
         \* returns None, which is no response (TypeError)
         (IF bp.registered
          THEN {Out(gg, cs, register_session(r), tbl, bp, Raise("AssertionError", NoFlash))}
          ELSE {})
         \cup
         {Out(gg, cs, register_session(r), tbl,
              [bp EXCEPT !.routes = @ \cup {"auth.login"},
                         !.before_app_request = @ \cup {"load_logged_in_user"}],
              Raise("TypeError", NoFlash))}

\* the view of /auth/register in the request being served
register(r) == register_view(r, g, conns, user)

\* db.execute('SELECT * FROM user where username = ?', (username).fetchone()):
\* fetchone is called on the username string, not on the cursor
select_by_username(db, tbl, username) ==
    [exc |-> "AttributeError", row |-> NoneUser]

\* the view of /auth/login (defined inside register)
login(r) ==
    IF r.method = "POST"
    THEN LET d == get_db(g, conns)
             db == d.ret
             error == IF r.username = "" THEN <<"Please enter a valid username.">>
                      ELSE IF r.password = "" THEN <<"Please enter a password.">>
                      ELSE NoFlash
             x == select_by_username(db, user, r.username)
             error2 == IF x.row = NoneUser THEN <<"Incorrect username.">>
                       ELSE IF ~check_password_hash(x.row.row.password, r.password)
                       THEN <<"Incorrect password">>
                       ELSE error
         IN  IF x.exc # NoExc
             THEN {Out(d.g, d.conns, session, user, bp, Raise(x.exc, NoFlash))}
             ELSE \* the error is never flashed and the redirect is not returned
                  {Out(d.g, d.conns,
                       IF error2 = NoFlash THEN [user_id |-> x.row.row.id] ELSE session,
                       user, bp, Render("/auth/login.html", NoFlash))}
    ELSE {Out(g, conns, session, user, bp, Render("/auth/login.html", NoFlash))}

\* the before_app_request hook (defined inside register)
load_logged_in_user ==
    LET user_id == session.user_id
    IN  IF user_id = None
        THEN {Out([g EXCEPT !.user = NoneUser], conns, session, user, bp, NoResponse)}
        ELSE \* get_db().execute('... where id = ?', (user_id)): the parameters
             \* are an int, not a tuple
             LET d == get_db(g, conns)
             IN  {Out(d.g, d.conns, session, user, bp,
                      Raise(IF d.ret = None THEN "AttributeError" ELSE "ProgrammingError",
                            NoFlash))}

\* the view of /auth/logout
logout(r) ==
    {Out(g, conns, EmptySession, user, bp,
         IF url_for_ok("index") THEN Redirect("index") ELSE Raise("BuildError", NoFlash))}

\* login_required(view): wrapped_view(**kwargs); called is whether view ran
wrapped_view ==
    IF g.user = Unset
    THEN [called |-> FALSE, response |-> Raise("AttributeError", NoFlash)]
    ELSE IF g.user = NoneUser
    THEN [called |-> FALSE,
          response |-> IF url_for_ok("auth.login") THEN Redirect("auth.login")
                       ELSE Raise("BuildError", NoFlash)]
    ELSE [called |-> TRUE, response |-> Text("view")]

----------------------------------------------------------------------------
(* The state machine *)

\* the tables the database file may hold when the application starts: ids
\* count from 1, usernames are unique, passwords are stored hashed
InitTables ==
    LET Cols == [username : Usernames,
                 password : {generate_password_hash(p) : p \in Passwords}]
        Raw == UNION {[1..n -> Cols] : n \in 0..Cardinality(Usernames)}
        Unique(t) == \A i, j \in DOMAIN t : t[i].username = t[j].username => i = j
    IN  {[i \in DOMAIN t |-> [id |-> i, username |-> t[i].username,
                              password |-> t[i].password]] : t \in {u \in Raw : Unique(u)}}

Init ==
    /\ app = create_app
    /\ bp = bp_at_import
    /\ user \in InitTables
    /\ session = EmptySession
    /\ pc = "idle"
    /\ req = NoRequest
    /\ g = EmptyG
    /\ conns = <<>>
    /\ response = NoResponse
    /\ last = "create_app"
    /\ calls = <<>>
    /\ viewCalled = FALSE
    /\ registered = <<>>
    /\ loggedOut = FALSE
    /\ workers = <<>>

\* db.init_app(app)
init_app ==
    /\ pc = "idle"
    /\ Len(app.teardown_appcontext_funcs) < MaxTeardown
    /\ app' = [app EXCEPT !.teardown_appcontext_funcs = Append(@, "close_db"),
                          !.cli = @ \cup {"init-db"}]
    /\ last' = "init_app"
    /\ UNCHANGED <<bp, user, session, pc, req, g, conns, response, calls, viewCalled,
                   registered>>
    /\ UNCHANGED <<loggedOut, workers>>

\* app.register_blueprint(auth.bp): applies what the blueprint has recorded
register_blueprint ==
    /\ pc = "idle"
    /\ ~bp.registered
    /\ app' = [app EXCEPT !.url_map = @ \cup bp.routes,
                          !.before_request_funcs = @ \cup bp.before_app_request,
                          !.blueprints = @ \cup {"auth"}]
    /\ bp' = [bp EXCEPT !.registered = TRUE]
    /\ last' = "register_blueprint"
    /\ UNCHANGED <<user, session, pc, req, g, conns, response, calls, viewCalled,
                   registered>>
    /\ UNCHANGED <<loggedOut, workers>>

\* a request arrives: a fresh context is pushed
RequestBegin ==
    /\ pc = "idle"
    /\ Len(conns) < MaxConn
    /\ \E path \in Paths, method \in Methods, u \in FormUsernames, p \in FormPasswords :
          /\ method = "GET" => (u = "" /\ p = "")
          /\ req' = [path |-> path, method |-> method, username |-> u, password |-> p]
    /\ pc' = "before"
    /\ g' = EmptyG
    /\ response' = NoResponse
    /\ calls' = <<>>
    /\ viewCalled' = FALSE
    /\ last' = "request"
    /\ UNCHANGED <<app, bp, user, session, conns, registered>>
    /\ UNCHANGED <<loggedOut, workers>>

\* the before-request functions of the application run
BeforeRequest ==
    /\ pc = "before"
    /\ IF "load_logged_in_user" \in app.before_request_funcs
       THEN \E o \in load_logged_in_user :
               /\ g' = o.g
               /\ conns' = o.conns
               /\ response' = o.response
               /\ pc' = IF o.response.exc = NoExc THEN "view" ELSE "teardown"
       ELSE /\ pc' = "view"
            /\ UNCHANGED <<g, conns, response>>
    /\ last' = "before_request"
    /\ UNCHANGED <<app, bp, user, session, req, calls, viewCalled, registered>>
    /\ UNCHANGED <<loggedOut, workers>>

\* the view function of an endpoint
View(endpoint, r) ==
    CASE endpoint = "hello" -> {Out(g, conns, session, user, bp, hello)}
      [] endpoint = "auth.register" -> register(r)
      [] endpoint = "auth.login" -> login(r)
      [] endpoint = "auth.logout" -> logout(r)

\* the url map routes the request to a view, which makes the response; the
\* session is written to the client with the response (a failed request
\* writes it or not, depending on whether exceptions are propagated)
Dispatch ==
    /\ pc = "view"
    /\ LET matches == {e \in app.url_map : Rule(e).path = req.path}
           allowed == {e \in matches : req.method \in Rule(e).methods}
       IN  IF matches = {}
           THEN /\ response' = Abort(404)
                /\ UNCHANGED <<g, conns, session, user, bp>>
           ELSE IF allowed = {}
           THEN /\ response' = Abort(405)
                /\ UNCHANGED <<g, conns, session, user, bp>>
           ELSE \E e \in allowed : \E o \in View(e, req) :
                   /\ g' = o.g
                   /\ conns' = o.conns
                   /\ user' = o.user
                   /\ bp' = o.bp
                   /\ response' = o.response
                   /\ session' \in (IF o.response.exc = NoExc
                                    THEN {o.session}
                                    ELSE {o.session, session})
    /\ registered' = IF /\ "auth.register" \in app.url_map
                         /\ req.path = "/auth/register" /\ req.method = "POST"
                         /\ req.username # "" /\ req.password # ""
                         /\ \A i \in DOMAIN user : user[i].username # req.username
                      THEN <<req.username, req.password>>
                      ELSE <<>>
    /\ loggedOut' = IF /\ "auth.logout" \in app.url_map
                        /\ req.path = "/auth/logout" /\ req.method = "GET"
                     THEN TRUE
                     ELSE IF session'.user_id # None THEN FALSE ELSE loggedOut
    /\ pc' = "teardown"
    /\ last' = "dispatch"
    /\ UNCHANGED <<app, req, calls, viewCalled, workers>>

\* the context is popped: the teardown functions run and g is discarded
Teardown ==
    /\ pc \in {"teardown", "direct"}
    /\ LET t == RunTeardown(app.teardown_appcontext_funcs, g, conns)
       IN  conns' = t.conns
    /\ g' = EmptyG
    /\ calls' = <<>>
    /\ viewCalled' = FALSE
    /\ pc' = "idle"
    /\ last' = "teardown"
    /\ UNCHANGED <<app, bp, user, session, req, response, registered>>
    /\ UNCHANGED <<loggedOut, workers>>

\* a context is pushed to call the package's functions in it (as the
\* init-db command does)
ContextPush ==
    /\ pc = "idle"
    /\ pc' = "direct"
    /\ g' = EmptyG
    /\ req' = NoRequest
    /\ response' = NoResponse
    /\ calls' = <<>>
    /\ viewCalled' = FALSE
    /\ last' = "push"
    /\ UNCHANGED <<app, bp, user, session, conns, registered>>
    /\ UNCHANGED <<loggedOut, workers>>

\* a call of get_db()
GetDbCall ==
    /\ pc = "direct"
    /\ Len(calls) < MaxCalls
    /\ g.db = NoDb => Len(conns) < MaxConn
    /\ LET d == get_db(g, conns)
       IN  /\ g' = d.g
           /\ conns' = d.conns
           /\ calls' = Append(calls, [fn |-> "get_db", ret |-> d.ret])
    /\ last' = "get_db"
    /\ UNCHANGED <<app, bp, user, session, pc, req, response, viewCalled, registered>>
    /\ UNCHANGED <<loggedOut, workers>>

\* a call of close_db()
CloseDbCall ==
    /\ pc = "direct"
    /\ Len(calls) < MaxCalls
    /\ LET c == close_db(g, conns)
       IN  /\ g' = c.g
           /\ conns' = c.conns
    /\ calls' = Append(calls, [fn |-> "close_db", ret |-> None])
    /\ last' = "close_db"
    /\ UNCHANGED <<app, bp, user, session, pc, req, response, viewCalled, registered>>
    /\ UNCHANGED <<loggedOut, workers>>

\* the request is served by a view that is wrapped by login_required (a view
\* of the application that uses the package): it runs after the
\* before-request functions and makes the response
WrappedViewCall ==
    /\ pc = "view"
    /\ LET w == wrapped_view
       IN  /\ viewCalled' = w.called
           /\ response' = w.response
    /\ pc' = "teardown"
    /\ last' = "wrapped_view"
    /\ UNCHANGED <<app, bp, user, session, req, g, conns, calls, registered>>
    /\ UNCHANGED <<loggedOut, workers>>

\* a call of init_db()
InitDbCall ==
    /\ pc = "direct"
    /\ Len(calls) < MaxCalls
    /\ g.db = NoDb => Len(conns) < MaxConn
    /\ LET i == init_db
       IN  /\ g' = i.g
           /\ conns' = i.conns
           /\ user' = i.user
           /\ response' = i.response
    /\ calls' = Append(calls, [fn |-> "init_db", ret |-> None])
    /\ last' = "init_db"
    /\ UNCHANGED <<app, bp, session, pc, req, viewCalled, registered>>
    /\ UNCHANGED <<loggedOut, workers>>

Next ==
    \/ init_app
    \/ register_blueprint
    \/ RequestBegin
    \/ BeforeRequest
    \/ Dispatch
    \/ Teardown
    \/ ContextPush
    \/ GetDbCall
    \/ CloseDbCall
    \/ WrappedViewCall
    \/ InitDbCall

Spec == Init /\ [][Next]_vars

----------------------------------------------------------------------------
(* Two Register requests served at the same time.  Each request runs in a  *)
(* context of its own, with its own g and its own connection; what the two *)
(* share is the database.  The view reaches the user table in one          *)
(* statement, the INSERT, so the view is one step of its request.          *)

\* the application with the blueprint registered, and its teardown functions
AssembledApp(teardown) ==
    [create_app EXCEPT !.url_map = @ \cup bp_at_import.routes,
                       !.before_request_funcs = @ \cup bp_at_import.before_app_request,
                       !.blueprints = @ \cup {"auth"},
                       !.teardown_appcontext_funcs = teardown,
                       !.cli = IF teardown = <<>> THEN {} ELSE {"init-db"}]

\* both requests are POST /auth/register with the same username, which the
\* table does not hold
InitConc ==
    /\ \E t \in {<<>>, <<"close_db">>} : app = AssembledApp(t)
    /\ bp = [bp_at_import EXCEPT !.registered = TRUE]
    /\ user \in InitTables
    /\ session = EmptySession
    /\ pc = "idle"
    /\ req = NoRequest
    /\ g = EmptyG
    /\ conns = <<>>
    /\ response = NoResponse
    /\ last = "create_app"
    /\ calls = <<>>
    /\ viewCalled = FALSE
    /\ registered = <<>>
    /\ loggedOut = FALSE
    /\ \E u \in Usernames, p1 \in Passwords, p2 \in Passwords :
          /\ \A i \in DOMAIN user : user[i].username # u
          /\ workers = [w \in 1..2 |->
                           [pc |-> "new",
                            req |-> [path |-> "/auth/register", method |-> "POST",
                                     username |-> u,
                                     password |-> IF w = 1 THEN p1 ELSE p2],
                            g |-> EmptyG,
                            response |-> NoResponse]]

\* the request of worker w arrives: its context is pushed (the application
\* has no before-request function)
WorkerBegin(w) ==
    /\ workers[w].pc = "new"
    /\ workers' = [workers EXCEPT ![w].pc = "view", ![w].g = EmptyG]
    /\ UNCHANGED <<app, bp, user, session, pc, req, g, conns, response, last, calls,
                   viewCalled, registered, loggedOut>>

\* the register view serves the request of worker w
WorkerView(w) ==
    /\ workers[w].pc = "view"
    /\ \E o \in register_view(workers[w].req, workers[w].g, conns, user) :
          /\ workers' = [workers EXCEPT ![w].pc = "teardown",
                                        ![w].g = o.g,
                                        ![w].response = o.response]
          /\ conns' = o.conns
          /\ user' = o.user
          /\ bp' = o.bp
    /\ UNCHANGED <<app, session, pc, req, g, response, last, calls, viewCalled,
                   registered, loggedOut>>

\* the context of worker w is popped: the teardown functions run
WorkerTeardown(w) ==
    /\ workers[w].pc = "teardown"
    /\ LET t == RunTeardown(app.teardown_appcontext_funcs, workers[w].g, conns)
       IN  conns' = t.conns
    /\ workers' = [workers EXCEPT ![w].pc = "done", ![w].g = EmptyG]
    /\ UNCHANGED <<app, bp, user, session, pc, req, g, response, last, calls,
                   viewCalled, registered, loggedOut>>

NextConc ==
    \/ \E w \in DOMAIN workers : WorkerBegin(w)
    \/ \E w \in DOMAIN workers : WorkerView(w)
    \/ \E w \in DOMAIN workers : WorkerTeardown(w)

SpecConc == InitConc /\ [][NextConc]_vars

----------------------------------------------------------------------------
(* Properties *)

HasUser(tbl, username) == \E i \in DOMAIN tbl : tbl[i].username = username
UniqueUsernames(tbl) ==
    \A i, j \in DOMAIN tbl : tbl[i].username = tbl[j].username => i = j

\* the step in which the view of a request to path with method makes the response
Served(path, method) ==
    /\ pc = "view" /\ pc' = "teardown" /\ last' = "dispatch"
    /\ req.path = path /\ req.method = method

\* C1: a Register(u, p) request with u, p non-empty and u not in the store,
\* followed by a Login(u, p) request, ends with session.user_id equal to the
\* id the store gave u.
C1_RegisterThenLogin ==
    [][(/\ Served("/auth/login", "POST")
        /\ registered = <<req.username, req.password>>)
       => \E i \in DOMAIN user' : /\ user'[i].username = req.username
                                  /\ session'.user_id = user'[i].id]_vars

\* C2: a Login with a username of the store and a password that does not
\* match its hash yields the error "Incorrect password" and leaves the session
\* as it was.
C2_WrongPassword ==
    [][(/\ Served("/auth/login", "POST")
        /\ \E i \in DOMAIN user :
              /\ user[i].username = req.username
              /\ ~check_password_hash(user[i].password, req.password))
       => /\ response'.status = 200
          /\ response'.flash = <<"Incorrect password">>
          /\ session' = session]_vars

\* C3: a Login with a non-empty username that is not in the store completes
\* as a normal request with the error "Incorrect username" and leaves the
\* session as it was.
C3_UnknownUsername ==
    [][(/\ Served("/auth/login", "POST")
        /\ req.username # ""
        /\ ~HasUser(user, req.username))
       => /\ response'.status = 200
          /\ response'.exc = NoExc
          /\ response'.flash = <<"Incorrect username.">>
          /\ session' = session]_vars

\* C4: the store holds at most one row per username, and a Register with a
\* username of the store creates no row, leaves the rows as they are and
\* answers with the message "User <name> is already registered" instead of
\* failing.
C4_DuplicateRegister ==
    [][/\ UniqueUsernames(user')
       /\ (/\ Served("/auth/register", "POST")
           /\ "auth.register" \in app.url_map
           /\ req.password # ""
           /\ HasUser(user, req.username))
          => /\ user' = user
             /\ response' = Render("auth/register.html",
                                   <<"User", req.username,
                                     "is already registered. Please login instead.">>)]_vars

\* C5: from any session state a Logout request does not fail, leaves
\* session.user_id absent and redirects to the landing endpoint (so a second
\* Logout gives the same state and response).
C5_Logout ==
    [][(/\ Served("/auth/logout", "GET")
        /\ "auth.logout" \in app.url_map)
       => /\ response' = Redirect("index")
          /\ session'.user_id = None]_vars

\* C6: a view wrapped by login_required is invoked only when the request has
\* a current user; without one the view is not called and the response is a
\* redirect to the login endpoint.
C6_LoginRequired ==
    last = "wrapped_view"
    => IF g.user.tag = "Row"
       THEN viewCalled
       ELSE ~viewCalled /\ response = Redirect("auth.login")

\* C7: when the view of a request runs, the current user has been set from
\* the session: None without user_id, the row with that id if there is one,
\* None if there is none.
C7_CurrentUserLoaded ==
    pc = "view"
    => g.user = IF session.user_id = None
                THEN NoneUser
                ELSE IF \E i \in DOMAIN user : user[i].id = session.user_id
                THEN Row(CHOOSE r \in {user[i] : i \in DOMAIN user} :
                            r.id = session.user_id)
                ELSE NoneUser

\* C8: every call of get_db returns the handle of the request, never None,
\* and a call that follows another returns the same handle.
C8_SameHandle ==
    /\ last = "get_db" => /\ g.db # NoDb
                          /\ calls[Len(calls)].ret = g.db
    /\ \A i \in DOMAIN calls :
          (i > 1 /\ calls[i].fn = "get_db" /\ calls[i - 1].fn = "get_db")
          => calls[i].ret = calls[i - 1].ret

\* C9: the connection get_db created during a request is closed, once, when
\* the request ends.
C9_ClosedAtRequestEnd ==
    [][(pc = "teardown" /\ pc' = "idle" /\ g.db # NoDb)
       => /\ ~conns'[g.db].open
          /\ conns'[g.db].closes = 1]_vars

\* C10: close_db closes the handle of the context if there is one and takes
\* it out of g; with no handle it changes nothing; no connection is ever
\* closed twice, however often close_db is called.
C10_CloseDb ==
    [][/\ \A c \in DOMAIN conns' : conns'[c].closes <= 1
       /\ (pc = "direct" /\ last' = "close_db" /\ calls' # calls)
          => /\ g'.db = NoDb
             /\ g'.user = g.user
             /\ response' = response
             /\ IF g.db = NoDb
                THEN conns' = conns
                ELSE /\ DOMAIN conns' = DOMAIN conns
                     /\ ~conns'[g.db].open
                     /\ conns'[g.db].closes = conns[g.db].closes + 1
                     /\ \A c \in DOMAIN conns : c # g.db => conns'[c] = conns[c]]_vars

\* get_db, then close_db twice in a row: the connection was closed once
C10_Witness ==
    /\ Len(calls) = 3
    /\ calls[1].fn = "get_db" /\ calls[2].fn = "close_db" /\ calls[3].fn = "close_db"
    /\ ~conns[calls[1].ret].open
    /\ conns[calls[1].ret].closes = 1
    /\ g.db = NoDb

\* the credentials of the request verify against a row of the table
Verifies(tbl, r) ==
    \E i \in DOMAIN tbl : /\ tbl[i].username = r.username
                          /\ check_password_hash(tbl[i].password, r.password)

\* C11: Register leaves session.user_id as it was in every outcome, and a
\* successful Register (both fields non-empty, username not in the store)
\* answers with a redirect to the login endpoint.
C11_RegisterKeepsSession ==
    [][\A method \in Methods :
          (Served("/auth/register", method) /\ "auth.register" \in app.url_map)
          => /\ session' = session
             /\ (/\ method = "POST"
                 /\ register_error(req) = NoFlash
                 /\ ~HasUser(user, req.username))
                => response' = Redirect("auth.login")]_vars

\* C12: a Register POST with an empty username or password leaves the store
\* as it was and re-renders the form with the validation message; the store
\* changes only when both fields are non-empty.
C12_RegisterValidation ==
    [][(Served("/auth/register", "POST") /\ "auth.register" \in app.url_map)
       => /\ (req.username = "" \/ req.password = "")
             => /\ user' = user
                /\ response' = Render("auth/register.html",
                                      IF req.username = ""
                                      THEN <<"Username is required.">>
                                      ELSE <<"Password is required.">>)
          /\ user' # user => (req.username # "" /\ req.password # "")]_vars

\* a Register POST with a username and no password was answered with the form
C12_Witness ==
    /\ pc = "teardown" /\ last = "dispatch"
    /\ "auth.register" \in app.url_map
    /\ req.path = "/auth/register" /\ req.method = "POST"
    /\ req.username # "" /\ req.password = ""
    /\ response = Render("auth/register.html", <<"Password is required.">>)

\* C14: a Login POST whose credentials verify sets session.user_id and
\* redirects to the landing endpoint; one whose credentials do not verify
\* re-renders the login form with an error.
C14_LoginResponse ==
    [][Served("/auth/login", "POST")
       => IF Verifies(user, req)
          THEN /\ response' = Redirect("index")
               /\ \E i \in DOMAIN user : /\ user[i].username = req.username
                                         /\ session'.user_id = user[i].id
          ELSE /\ response'.status = 200
               /\ response'.body = "/auth/login.html"
               /\ response'.flash # NoFlash]_vars

\* C15: every request to /auth/register gets a response: a GET the form, a
\* POST the form with an error or a redirect to /auth/login.
C15_RegisterResponds ==
    [][/\ (Served("/auth/register", "GET") /\ "auth.register" \in app.url_map)
          => response' = Render("auth/register.html", NoFlash)
       /\ (Served("/auth/register", "POST") /\ "auth.register" \in app.url_map)
          => \/ /\ response'.status = 200
                /\ response'.body = "auth/register.html"
                /\ response'.flash # NoFlash
             \/ response' = Redirect("auth.login")]_vars

\* C16: from its creation on, the application has the three auth endpoints
\* and the user-loading hook, and close_db among its teardown functions.
C16_Assembled ==
    /\ {"auth.register", "auth.login", "auth.logout"} \subseteq app.url_map
    /\ "load_logged_in_user" \in app.before_request_funcs
    /\ \E i \in DOMAIN app.teardown_appcontext_funcs :
          app.teardown_appcontext_funcs[i] = "close_db"

\* C17: no step of a request changes the user table, except a Register with
\* valid fields and a new username, which appends that user's row; rows are
\* never modified or deleted by a request.
C17_OnlyRegisterWrites ==
    [][(pc = "before" \/ pc = "view" \/ pc = "teardown")
       => \/ user' = user
          \/ /\ Served("/auth/register", "POST")
             /\ register_error(req) = NoFlash
             /\ ~HasUser(user, req.username)
             /\ user' = Append(user, [id |-> Len(user) + 1,
                                      username |-> req.username,
                                      password |-> generate_password_hash(req.password)])]_vars

\* a Logout was served by its view while the table held two rows
C17_Witness ==
    /\ pc = "teardown" /\ last = "dispatch"
    /\ "auth.logout" \in app.url_map
    /\ req.path = "/auth/logout" /\ req.method = "GET"
    /\ Len(user) = 2

\* C18: session.user_id is absent or the id of a row of the store, and the
\* only step that binds it is a Login whose username was found and whose
\* password verified against that row.
C18_SessionUser ==
    [][/\ (session'.user_id = None
           \/ \E i \in DOMAIN user' : user'[i].id = session'.user_id)
       /\ (session'.user_id # session.user_id /\ session'.user_id # None)
          => /\ Served("/auth/login", "POST")
             /\ \E i \in DOMAIN user :
                   /\ user[i].username = req.username
                   /\ check_password_hash(user[i].password, req.password)
                   /\ session'.user_id = user[i].id]_vars

\* a valid Register of a new username was served by its view, and the session
\* has no user_id
C18_Witness ==
    /\ pc = "teardown" /\ last = "dispatch"
    /\ "auth.register" \in app.url_map
    /\ req.path = "/auth/register" /\ req.method = "POST"
    /\ register_error(req) = NoFlash
    /\ ~HasUser(user, req.username)
    /\ session.user_id = None

\* C20: the handle in g, if any, is open; a get_db call that returns a handle
\* returns an open one; a get_db call right after close_db returns a fresh
\* connection, not the closed one.
C20_NoClosedHandle ==
    /\ g.db # NoDb => conns[g.db].open
    /\ (last = "get_db" /\ calls[Len(calls)].ret # None)
       => conns[calls[Len(calls)].ret].open
    /\ \A i \in DOMAIN calls :
          (i > 1 /\ calls[i].fn = "get_db" /\ calls[i - 1].fn = "close_db")
          => /\ calls[i].ret # None
             /\ \A j \in 1..(i - 1) : calls[j].ret # calls[i].ret

\* get_db, close_db, get_db: the second connection is new and open, the first closed
C20_Witness ==
    /\ Len(calls) = 3
    /\ calls[1].fn = "get_db" /\ calls[2].fn = "close_db" /\ calls[3].fn = "get_db"
    /\ calls[3].ret # calls[1].ret
    /\ conns[calls[3].ret].open
    /\ ~conns[calls[1].ret].open
    /\ g.db = calls[3].ret

\* C13: when two Register requests with the same unused username are served
\* concurrently, in any interleaving one succeeds, the other gets the
\* duplicate-username error, and the store ends with one row for the username.
C13_ConcurrentRegister ==
    (workers # <<>> /\ \A w \in DOMAIN workers : workers[w].pc = "done")
    => LET u == workers[1].req.username
       IN  /\ Cardinality({i \in DOMAIN user : user[i].username = u}) = 1
           /\ \E a \in DOMAIN workers, b \in DOMAIN workers :
                 /\ a # b
                 /\ workers[a].response = Redirect("auth.login")
                 /\ workers[b].response =
                       Render("auth/register.html",
                              <<"User", u, "is already registered. Please login instead.">>)

\* C19: in a request after a Logout and before a Login has succeeded, the
\* current user loaded at the start of the request is None; a request starts
\* with no current user carried over from the one before.
C19_AnonymousAfterLogout ==
    [][/\ (pc = "idle" /\ pc' = "before") => g'.user = Unset
       /\ (pc = "before" /\ pc' # "before" /\ loggedOut) => g'.user = NoneUser]_vars

====
